---- MODULE Spec2Model ----
(***************************************************************************)
(* Model of the outbound-request governor (rateLimiter, chat controller),  *)
(* of the quota monitor (utils/quotaMonitor.js), of the two request        *)
(* handlers that use them (generateQuiz, validateAnswer) and of the        *)
(* database connector (utils/mongoConnector.js) of studyIA-backend.        *)
(*                                                                         *)
(* Time is in milliseconds (Date.now()).  One action is one turn of the    *)
(* Node.js event loop: a call from a request handler, a timer callback or  *)
(* the continuation of an awaited promise.  A timer set for t fires at any *)
(* instant at or after t (timers may be late, never early).                *)
(***************************************************************************)
EXTENDS Integers, Sequences, FiniteSets, TLC

\* ------------------------------------------------------------------ bounds
MaxItems  == 2        \* work items submitted by request handlers
MaxFailures == 4      \* failing promiseFunction() calls, all items together
StartTime == 100000   \* Date.now() when the process starts
MaxTime   == 101000   \* free time steps stop here; jumps to timers do not
TickSteps == {1000}
SuggestedDelays == {5}   \* seconds carried by a 429 error, retryDelay:"5s"
NoHint    == -1       \* the 429 error carries no retryDelay

DayMs          == 86400000    \* milliseconds in a calendar day
QuotaStartTime == 172770000   \* Date.now() at start: 30 s before midnight
QuotaMaxTime   == 172860000   \* quota time steps stop here
QuotaTick      == 30000       \* quota time step
MaxRecords     == 17          \* trackApiRequest calls made
MaxRestarts    == 1           \* restarts of the process
MaxConnectCalls == 2          \* calls of mongoConnector.connect made by the application
MaxRequests    == 2           \* requests received by generateQuiz and validateAnswer
AppItems       == 1           \* work items the handlers submit
WindowAge      == 20500       \* age at start of the minute window an earlier run left
OldMinuteQuota == 2           \* limits stored by a deployment for another model
OldDailyQuota  == 50
HighMinuteQuota == 16         \* a stored minute limit above the default
NearDailyQuota == 118         \* a stored requestsToday close to the daily limit

\* ------------------------------------------------- constants of the program
minTimeBetweenRequests == 30000
maxRetries             == 3
defaultRetryDelay      == 30000
drainPause             == 100
minuteQuotaDefault     == 15
dailyQuotaDefault      == 120
minuteWindow           == 60000
historyLimit           == 30
maxConnectionAttempts  == 5
connectRetryDelay      == 3000    \* mongoConnector.retryDelay

VARIABLES
  now,              \* Date.now()
  queue,            \* rateLimiter.queue: <<[id, retryCount]>>
  processing,       \* rateLimiter.processing
  lastRequestTime,  \* rateLimiter.lastRequestTime
  timers,           \* pending setTimeout callbacks, in creation order
  running,          \* promiseFunction() calls that have not completed
  submitted,        \* number of addToQueue calls made by request handlers
  settled,          \* state of the promise addToQueue returned to the handler
  dispatched,       \* per item: number of times its promiseFunction was invoked
  lastDelay,        \* per item: the retry delay scheduled last (-1: none yet)
  lastHint,         \* per item: the hint of its last rate-limit failure
  failures,         \* promiseFunction() calls that failed so far
  inMemoryQuotaData,\* quotaMonitor.js: the cached state, NoData when null
  quotaFile,        \* the file at quotaLogPath
  writable,         \* whether fs.writeFileSync to quotaLogPath succeeds
  lastResult,       \* what the last trackApiRequest / checkQuotaAvailable returned
  nRecords,         \* trackApiRequest calls made so far
  windowCalls,      \* trackApiRequest calls of the current minute window, earlier runs included
  storedQuota,      \* minuteQuota found in the file when the process started
  rolled,           \* state before and date of the last daily reset
  shadow,           \* memory and last result of the same process with every write succeeding
  restarts,         \* number of times the process was restarted
  requests,         \* the HTTP requests received, with the position of their handler
  isConnecting,     \* mongoConnector.isConnecting
  connectionAttempts, \* mongoConnector.connectionAttempts
  connectLog        \* what connect() has done so far: calls made from outside, mongoose.connect
                    \* calls started, failures in a row, promises resolved and rejected

gvars == <<now, queue, processing, lastRequestTime, timers, running, submitted,
           settled, dispatched, lastDelay, lastHint, failures>>

qvars == <<inMemoryQuotaData, quotaFile, writable, lastResult, nRecords, windowCalls,
           storedQuota, rolled, shadow, restarts>>

cvars == <<isConnecting, connectionAttempts, connectLog>>

vars == <<gvars, qvars, requests, cvars>>

Ids == 1..MaxItems

Max(a, b) == IF a >= b THEN a ELSE b

RECURSIVE Pow2(_)
Pow2(n) == IF n = 0 THEN 1 ELSE 2 * Pow2(n - 1)

Timer(kind, at, id, retryCount) ==
  [kind |-> kind, at |-> at, id |-> id, retryCount |-> retryCount]

RemoveAt(s, i) == SubSeq(s, 1, i - 1) \o SubSeq(s, i + 1, Len(s))

Outcomes ==
  {[kind |-> "ok", hint |-> NoHint], [kind |-> "other", hint |-> NoHint]}
  \cup {[kind |-> "rate", hint |-> h] : h \in SuggestedDelays \cup {NoHint}}

\* lines 50-52
GovIdle ==
  /\ queue = <<>>
  /\ processing = FALSE
  /\ lastRequestTime = 0
  /\ timers = <<>>
  /\ running = <<>>
  /\ submitted = 0
  /\ settled = [i \in Ids |-> "none"]
  /\ dispatched = [i \in Ids |-> 0]
  /\ lastDelay = [i \in Ids |-> -1]
  /\ lastHint = [i \in Ids |-> NoHint]
  /\ failures = 0

\* ---------------------------------------------------------- quota monitor
QuotaData(today, minute, ts, day, mq, dq, exceeded, upd, hist) ==
  [requestsToday |-> today, requestsThisMinute |-> minute,
   lastMinuteTimestamp |-> ts, dailyReset |-> day, minuteQuota |-> mq,
   dailyQuota |-> dq, quotaExceededCount |-> exceeded, lastUpdate |-> upd,
   history |-> hist]

\* inMemoryQuotaData = null
NoData == QuotaData(-1, -1, -1, -1, -1, -1, -1, -1, <<>>)

\* new Date().toISOString().split('T')[0], as the number of the UTC day
Today == now \div DayMs

\* lines 55-65
InitialData ==
  QuotaData(0, 0, now, Today, minuteQuotaDefault, dailyQuotaDefault, 0, now, <<>>)

File(exists, valid, data) == [exists |-> exists, valid |-> valid, data |-> data]

\* a saveQuotaData that reports success without writing
SaveQuotaDataSkipped(file, data) == file

\* saveQuotaData(data) on file
SaveQuotaData(file, data) == IF writable THEN File(TRUE, TRUE, data) ELSE file

\* the migration of line 80 with the comparison the wrong way round
NeedsFlashLimitsAbove(data) == data.minuteQuota > minuteQuotaDefault

\* line 80
NeedsFlashLimits(data) == data.minuteQuota < minuteQuotaDefault

\* initQuotaLog() without line 50: the file is read again on every call
InitQuotaLogNoCache ==
  IF ~quotaFile.exists
  THEN [data |-> InitialData, file |-> SaveQuotaData(quotaFile, InitialData)]
  ELSE IF ~quotaFile.valid
  THEN [data |-> InitialData, file |-> quotaFile]
  ELSE IF NeedsFlashLimits(quotaFile.data)
  THEN LET data == [quotaFile.data EXCEPT !.minuteQuota = minuteQuotaDefault,
                                          !.dailyQuota = dailyQuotaDefault]
       IN [data |-> data, file |-> SaveQuotaData(quotaFile, data)]
  ELSE [data |-> quotaFile.data, file |-> quotaFile]

\* initQuotaLog(): the data it returns and the file it leaves
InitQuotaLog ==
  IF inMemoryQuotaData # NoData
  THEN [data |-> inMemoryQuotaData, file |-> quotaFile]
  ELSE IF ~quotaFile.exists
  THEN [data |-> InitialData, file |-> SaveQuotaData(quotaFile, InitialData)]
  ELSE IF ~quotaFile.valid
  THEN [data |-> InitialData, file |-> quotaFile]
  ELSE IF NeedsFlashLimits(quotaFile.data)
  THEN LET data == [quotaFile.data EXCEPT !.minuteQuota = minuteQuotaDefault,
                                          !.dailyQuota = dailyQuotaDefault]
       IN [data |-> data, file |-> SaveQuotaData(quotaFile, data)]
  ELSE [data |-> quotaFile.data, file |-> quotaFile]

\* slice that keeps the oldest entries
LimitHistoryOldest(h) ==
  IF Len(h) > historyLimit THEN SubSeq(h, 1, historyLimit) ELSE h

\* lines 114-116: history.slice(-30)
LimitHistory(h) ==
  IF Len(h) > historyLimit THEN SubSeq(h, Len(h) - historyLimit + 1, Len(h)) ELSE h

\* a daily reset that does not look at the date: every call resets
DailyResetEveryCall(d) ==
  LET d1 == [d EXCEPT !.dailyReset = Today, !.requestsToday = 0]
      entry == [date |-> d1.dailyReset, requests |-> d1.requestsToday,
                quotaExceeds |-> d1.quotaExceededCount]
  IN [d1 EXCEPT !.history = LimitHistory(Append(d1.history, entry)),
                !.quotaExceededCount = 0]

\* lines 103-119
DailyReset(d) ==
  IF d.dailyReset # Today
  THEN LET d1 == [d EXCEPT !.dailyReset = Today, !.requestsToday = 0]
           entry == [date |-> d1.dailyReset, requests |-> d1.requestsToday,
                     quotaExceeds |-> d1.quotaExceededCount]
       IN [d1 EXCEPT !.history = LimitHistory(Append(d1.history, entry)),
                     !.quotaExceededCount = 0]
  ELSE d

\* a window test that lets the window last one millisecond longer
WindowElapsedStrict(d) == now - d.lastMinuteTimestamp > minuteWindow

\* lines 122 and 158
WindowElapsed(d) == now - d.lastMinuteTimestamp >= minuteWindow

\* a window that restarts at the clock minute instead of at the call
MinuteResetAligned(d) ==
  IF WindowElapsed(d)
  THEN [d EXCEPT !.lastMinuteTimestamp = now - (now % minuteWindow),
                 !.requestsThisMinute = 0]
  ELSE d

\* lines 122-125
MinuteReset(d) ==
  IF WindowElapsed(d)
  THEN [d EXCEPT !.lastMinuteTimestamp = now, !.requestsThisMinute = 0]
  ELSE d

\* the increment of line 128 left out
IncrementMinuteOnly(d) ==
  [d EXCEPT !.requestsThisMinute = @ + 1, !.lastUpdate = now]

\* lines 128-130
Increment(d) ==
  [d EXCEPT !.requestsToday = @ + 1, !.requestsThisMinute = @ + 1, !.lastUpdate = now]

\* the exceed test with the minute comparison of the pre-check
ExceededAtQuota(d) ==
  d.requestsThisMinute >= d.minuteQuota \/ d.requestsToday >= d.dailyQuota

\* lines 133-134
Exceeded(d) ==
  d.requestsThisMinute > d.minuteQuota \/ d.requestsToday >= d.dailyQuota

\* lines 147-148 and 172-173
TimeToReset(flag, d) ==
  IF flag THEN Max(0, minuteWindow - (now - d.lastMinuteTimestamp)) ELSE 0

Result(op, flag, d) ==
  [op |-> op, isQuotaExceeded |-> flag, timeToReset |-> TimeToReset(flag, d),
   requestsThisMinute |-> d.requestsThisMinute, requestsToday |-> d.requestsToday,
   at |-> now]

\* what initQuotaLog() returns in the process whose writes all succeed: its
\* own memory, and on its first call what the file held when it started
ShadowLoad ==
  IF shadow.data # NoData THEN shadow.data
  ELSE IF ~quotaFile.exists \/ ~quotaFile.valid THEN InitialData
  ELSE IF NeedsFlashLimits(quotaFile.data)
  THEN [quotaFile.data EXCEPT !.minuteQuota = minuteQuotaDefault,
                              !.dailyQuota = dailyQuotaDefault]
  ELSE quotaFile.data

\* trackApiRequest() in the process whose writes all succeed
ShadowTrack ==
  LET d3 == Increment(MinuteReset(DailyReset(ShadowLoad)))
      d4 == IF Exceeded(d3) THEN [d3 EXCEPT !.quotaExceededCount = @ + 1] ELSE d3
  IN [data |-> d4, result |-> Result("record", Exceeded(d3), d4)]

\* checkQuotaAvailable() in the process whose writes all succeed
ShadowCheck ==
  LET d == ShadowLoad
      flag == IF WindowElapsed(d) THEN FALSE ELSE d.requestsThisMinute >= d.minuteQuota
  IN [data |-> d, result |-> Result("check", flag, d)]

\* trackApiRequest(): what it does to the quota monitor
TrackApiRequestBody ==
    LET loaded == InitQuotaLog
        d1 == DailyReset(loaded.data)
        d2 == MinuteReset(d1)
        d3 == Increment(d2)
        isQuotaExceeded == Exceeded(d3)
        d4 == IF isQuotaExceeded
              THEN [d3 EXCEPT !.quotaExceededCount = @ + 1] ELSE d3
    IN /\ nRecords < MaxRecords
       /\ nRecords' = nRecords + 1
       /\ quotaFile' = SaveQuotaData(loaded.file, d4)
       /\ inMemoryQuotaData' = d4
       /\ lastResult' = Result("record", isQuotaExceeded, d4)
       /\ windowCalls' =
            IF now - d1.lastMinuteTimestamp >= 60000 THEN 1 ELSE windowCalls + 1
       /\ rolled' = IF loaded.data.dailyReset # Today
                    THEN [happened |-> TRUE, day |-> loaded.data.dailyReset,
                          requests |-> loaded.data.requestsToday,
                          quotaExceeds |-> loaded.data.quotaExceededCount,
                          history |-> loaded.data.history]
                    ELSE [rolled EXCEPT !.happened = FALSE]
       /\ shadow' = ShadowTrack
       /\ UNCHANGED <<writable, storedQuota, restarts>>

\* trackApiRequest(), called on its own
TrackApiRequest ==
  /\ TrackApiRequestBody
  /\ UNCHANGED <<gvars, requests, cvars>>

\* a pre-check that applies and saves the window reset of trackApiRequest
CheckQuotaAvailableResets ==
    LET loaded == InitQuotaLog
        quotaData == MinuteReset(loaded.data)
        isQuotaExceeded == quotaData.requestsThisMinute >= quotaData.minuteQuota
    IN /\ quotaFile' = SaveQuotaData(loaded.file, quotaData)
       /\ inMemoryQuotaData' = quotaData
       /\ lastResult' = Result("check", isQuotaExceeded, quotaData)
       /\ shadow' = ShadowCheck
       /\ UNCHANGED <<gvars, writable, nRecords, windowCalls, storedQuota, rolled, restarts,
                      requests, cvars>>

\* a pre-check that also refuses when the daily quota is used up
QuotaStatusWithDaily ==
  LET quotaData == InitQuotaLog.data
      isQuotaExceeded == IF WindowElapsed(quotaData) THEN FALSE
                         ELSE \/ quotaData.requestsThisMinute >= quotaData.minuteQuota
                              \/ quotaData.requestsToday >= quotaData.dailyQuota
  IN Result("check", isQuotaExceeded, quotaData)

\* a pre-check with the comparison of the record's test, > for >=
QuotaStatusLenient ==
  LET quotaData == InitQuotaLog.data
      isQuotaExceeded == IF WindowElapsed(quotaData) THEN FALSE
                         ELSE quotaData.requestsThisMinute > quotaData.minuteQuota
  IN Result("check", isQuotaExceeded, quotaData)

\* a check that misses the record made in the turn before it: what the
\* second of two requests would be told if both checked before either recorded
QuotaStatusBeforeRecord ==
  LET quotaData == InitQuotaLog.data
      seen == IF lastResult.op = "record" /\ lastResult.at = now
              THEN quotaData.requestsThisMinute - 1 ELSE quotaData.requestsThisMinute
      isQuotaExceeded == IF WindowElapsed(quotaData) THEN FALSE
                         ELSE seen >= quotaData.minuteQuota
  IN Result("check", isQuotaExceeded, quotaData)

\* lines 158-174: what checkQuotaAvailable() returns
QuotaStatus ==
  LET quotaData == InitQuotaLog.data
      isQuotaExceeded == IF WindowElapsed(quotaData) THEN FALSE
                         ELSE quotaData.requestsThisMinute >= quotaData.minuteQuota
  IN Result("check", isQuotaExceeded, quotaData)

\* checkQuotaAvailable(): what it does to the quota monitor
CheckQuotaAvailableBody ==
  /\ quotaFile' = InitQuotaLog.file
  /\ inMemoryQuotaData' = InitQuotaLog.data
  /\ lastResult' = QuotaStatus
  /\ shadow' = ShadowCheck
  /\ UNCHANGED <<writable, nRecords, windowCalls, storedQuota, rolled, restarts>>

\* checkQuotaAvailable(), called on its own (GET /api-status)
CheckQuotaAvailable ==
  /\ CheckQuotaAvailableBody
  /\ UNCHANGED <<gvars, requests, cvars>>

\* time passes between two requests
QuotaTime ==
  /\ now + QuotaTick <= QuotaMaxTime
  /\ now' = now + QuotaTick
  /\ UNCHANGED <<queue, processing, lastRequestTime, timers, running, submitted,
                 settled, dispatched, lastDelay, lastHint, failures, qvars, requests, cvars>>

\* the process stops and starts again: let inMemoryQuotaData = null (line 47)
Restart ==
  /\ restarts < MaxRestarts
  /\ inMemoryQuotaData # NoData
  /\ restarts' = restarts + 1
  /\ inMemoryQuotaData' = NoData
  /\ shadow' = [shadow EXCEPT !.data = NoData]
  /\ storedQuota' = IF quotaFile.exists /\ quotaFile.valid
                    THEN quotaFile.data.minuteQuota ELSE minuteQuotaDefault
  /\ windowCalls' = IF quotaFile.exists /\ quotaFile.valid
                    THEN quotaFile.data.requestsThisMinute ELSE 0
  /\ UNCHANGED <<gvars, quotaFile, writable, lastResult, nRecords, rolled, requests, cvars>>

\* a history the program has written: one entry per day up to day
HistoryUpTo(day, n) ==
  [k \in 1..n |-> [date |-> day - n + k, requests |-> 0, quotaExceeds |-> 0]]

StoredFile(c, ts, day, q, n) ==
  File(TRUE, TRUE,
       QuotaData(c[1], c[2], ts, day, q[1], q[2], 0, QuotaStartTime - minuteWindow,
                 HistoryUpTo(day, n)))

StartDay == QuotaStartTime \div DayMs

FlashLimits == <<minuteQuotaDefault, dailyQuotaDefault>>

\* files an earlier run of the program has left behind
StoredFiles ==
  {StoredFile(c, QuotaStartTime, day, FlashLimits, n) :
     c \in {<<0, 0>>, <<14, 14>>, <<NearDailyQuota, 3>>},
     day \in {StartDay, StartDay - 1},
     n \in {0, historyLimit}}
  \cup
  {StoredFile(<<0, 0>>, ts, StartDay, q, 0) :
     ts \in {QuotaStartTime, QuotaStartTime - minuteWindow},
     q \in {<<OldMinuteQuota, OldDailyQuota>>, FlashLimits,
            <<HighMinuteQuota, dailyQuotaDefault>>}}

NoFile == File(FALSE, FALSE, NoData)

CorruptFile == File(TRUE, FALSE, NoData)

QuotaIdle ==
  /\ inMemoryQuotaData = NoData
  /\ lastResult = [op |-> "none", isQuotaExceeded |-> FALSE, timeToReset |-> 0,
                   requestsThisMinute |-> 0, requestsToday |-> 0, at |-> 0]
  /\ nRecords = 0
  /\ rolled = [happened |-> FALSE, day |-> 0, requests |-> 0, quotaExceeds |-> 0,
               history |-> <<>>]
  /\ shadow = [data |-> NoData, result |-> lastResult]
  /\ restarts = 0
  /\ requests = <<>>

QuotaInit ==
  /\ now = QuotaStartTime
  /\ quotaFile \in StoredFiles \cup {NoFile, CorruptFile}
  /\ writable \in BOOLEAN
  /\ storedQuota = IF quotaFile.exists /\ quotaFile.valid
                   THEN quotaFile.data.minuteQuota ELSE minuteQuotaDefault
  /\ windowCalls = IF quotaFile.exists /\ quotaFile.valid
                   THEN quotaFile.data.requestsThisMinute ELSE 0
  /\ QuotaIdle

\* lines 91-93: this.lastRequestTime = Date.now(); await promiseFunction()
Invoke(item) ==
  /\ lastRequestTime' = now
  /\ running' = Append(running, item)
  /\ dispatched' = [dispatched EXCEPT ![item.id] = @ + 1]

\* a sign slip in the pacing computation
TimeToWaitSignSlip ==
  Max(0, lastRequestTime - minTimeBetweenRequests - now)

\* lines 83-84
TimeToWait ==
  Max(0, lastRequestTime + minTimeBetweenRequests - now)

\* processQueue() taking the newest entry: queue.pop() for queue.shift()
ProcessQueueLifo(q, tm) ==
  IF Len(q) = 0
  THEN /\ processing' = FALSE
       /\ queue' = q
       /\ timers' = tm
       /\ UNCHANGED <<lastRequestTime, running, dispatched>>
  ELSE LET item == q[Len(q)]
           timeToWait == TimeToWait
       IN /\ processing' = TRUE
          /\ queue' = SubSeq(q, 1, Len(q) - 1)
          /\ IF timeToWait > 0
             THEN /\ timers' = Append(tm, Timer("pace", now + timeToWait, item.id, item.retryCount))
                  /\ UNCHANGED <<lastRequestTime, running, dispatched>>
             ELSE /\ timers' = tm
                  /\ Invoke(item)

\* processQueue() with the await of line 88 missing: the sleep is started
\* and the run is invoked without waiting for it
ProcessQueueNoAwait(q, tm) ==
  IF Len(q) = 0
  THEN /\ processing' = FALSE
       /\ queue' = q
       /\ timers' = tm
       /\ UNCHANGED <<lastRequestTime, running, dispatched>>
  ELSE LET item == Head(q)
           timeToWait == TimeToWait
       IN /\ processing' = TRUE
          /\ queue' = Tail(q)
          /\ timers' = IF timeToWait > 0
                       THEN Append(tm, Timer("pace", now + timeToWait, item.id, item.retryCount))
                       ELSE tm
          /\ Invoke(item)

\* processQueue() without line 75: the flag stays set when the queue is empty
ProcessQueueKeepsFlag(q, tm) ==
  IF Len(q) = 0
  THEN /\ queue' = q
       /\ timers' = tm
       /\ UNCHANGED <<processing, lastRequestTime, running, dispatched>>
  ELSE LET item == Head(q)
           timeToWait == TimeToWait
       IN /\ processing' = TRUE
          /\ queue' = Tail(q)
          /\ IF timeToWait > 0
             THEN /\ timers' = Append(tm, Timer("pace", now + timeToWait, item.id, item.retryCount))
                  /\ UNCHANGED <<lastRequestTime, running, dispatched>>
             ELSE /\ timers' = tm
                  /\ Invoke(item)

\* processQueue() up to its first await, on queue value q and timer list tm
ProcessQueue(q, tm) ==
  IF Len(q) = 0
  THEN /\ processing' = FALSE
       /\ queue' = q
       /\ timers' = tm
       /\ UNCHANGED <<lastRequestTime, running, dispatched>>
  ELSE LET item == Head(q)
           timeToWait == TimeToWait
       IN /\ processing' = TRUE
          /\ queue' = Tail(q)
          /\ IF timeToWait > 0
             THEN /\ timers' = Append(tm, Timer("pace", now + timeToWait, item.id, item.retryCount))
                  /\ UNCHANGED <<lastRequestTime, running, dispatched>>
             ELSE /\ timers' = tm
                  /\ Invoke(item)

\* addToQueue without the test of this.processing
AddToQueueNoGuard(id, retryCount, tm) ==
  ProcessQueue(Append(queue, [id |-> id, retryCount |-> retryCount]), tm)

\* addToQueue(promiseFunction, retryCount), called with timer list tm
AddToQueue(id, retryCount, tm) ==
  LET q == Append(queue, [id |-> id, retryCount |-> retryCount])
  IN IF ~processing
     THEN ProcessQueue(q, tm)
     ELSE /\ queue' = q
          /\ timers' = tm
          /\ UNCHANGED <<processing, lastRequestTime, running, dispatched>>

\* rateLimiter.addToQueue(promiseFunction) with a new work item
Enqueue ==
  /\ submitted < MaxItems
  /\ submitted' = submitted + 1
  /\ settled' = [settled EXCEPT ![submitted + 1] = "pending"]
  /\ AddToQueue(submitted + 1, 0, timers)
  /\ UNCHANGED <<now, lastDelay, lastHint, failures>>

\* a request handler calls rateLimiter.addToQueue(promiseFunction)
Submit ==
  /\ Enqueue
  /\ UNCHANGED <<qvars, requests, cvars>>

\* the pacing sleep of line 88 ends
PaceTimerFire ==
  \E i \in 1..Len(timers) :
    /\ timers[i].kind = "pace"
    /\ timers[i].at <= now
    /\ timers' = RemoveAt(timers, i)
    /\ Invoke([id |-> timers[i].id, retryCount |-> timers[i].retryCount])
    /\ UNCHANGED <<now, queue, processing, submitted, settled, lastDelay, lastHint, failures,
                   qvars, requests, cvars>>

\* the backoff without the exponential factor
RetryDelayFlat(hint, retryCount) ==
  IF hint # NoHint THEN hint * 1000 ELSE defaultRetryDelay

\* the backoff that never reads the delay the error suggests
RetryDelayIgnoresHint(hint, retryCount) ==
  defaultRetryDelay * Pow2(retryCount)

\* lines 100-109
RetryDelay(hint, retryCount) ==
  (IF hint # NoHint THEN hint * 1000 ELSE defaultRetryDelay) * Pow2(retryCount)

\* every failure is retried, whatever its message
ShouldRetryAnyError(out, retryCount) ==
  out.kind # "ok" /\ retryCount < maxRetries

\* the retry test off by one: retryCount <= maxRetries
ShouldRetryOneMore(out, retryCount) ==
  out.kind = "rate" /\ retryCount <= maxRetries

\* lines 99 and 111: a 429 error with retries left
ShouldRetry(out, retryCount) ==
  out.kind = "rate" /\ retryCount < maxRetries

\* the promise of a re-submitted item is not chained to the caller's promise
SettleNoChain(out, retryCount, cur) ==
  IF retryCount > 0 THEN cur
  ELSE CASE out.kind = "ok" -> "resolved"
         [] out.kind = "other" -> "rejected"
         [] OTHER -> cur

\* lines 94, 116-118, 121 and 124: what happens to the promise the caller holds
Settle(out, retryCount, cur) ==
  CASE out.kind = "ok" -> "resolved"
    [] out.kind = "other" -> "rejected"
    [] ShouldRetry(out, retryCount) -> cur
    [] OTHER -> "exhausted"

\* promiseFunction() completes: lines 94-129
RunComplete ==
  \E i \in 1..Len(running), out \in Outcomes :
    LET item == running[i]
        id == item.id
        retryDelay == RetryDelay(out.hint, item.retryCount)
        retry == ShouldRetry(out, item.retryCount)
        tm == IF retry
              THEN Append(timers, Timer("retry", now + retryDelay, id, item.retryCount + 1))
              ELSE timers
    IN /\ out.kind # "ok" => failures < MaxFailures
       /\ failures' = IF out.kind # "ok" THEN failures + 1 ELSE failures
       /\ running' = RemoveAt(running, i)
       /\ settled' = [settled EXCEPT ![id] = Settle(out, item.retryCount, @)]
       /\ lastDelay' = [lastDelay EXCEPT ![id] = IF retry THEN retryDelay ELSE @]
       /\ lastHint' = [lastHint EXCEPT ![id] = IF retry THEN out.hint ELSE @]
       /\ timers' = Append(tm, Timer("drain", now + drainPause, 0, 0))
       /\ UNCHANGED <<now, queue, processing, lastRequestTime, submitted, dispatched, qvars,
                      requests, cvars>>

\* a re-submission that counts as a request: trackApiRequest() on every retry
RetryTimerFireRecords ==
  \E i \in 1..Len(timers) :
    /\ timers[i].kind = "retry"
    /\ timers[i].at <= now
    /\ AddToQueue(timers[i].id, timers[i].retryCount, RemoveAt(timers, i))
    /\ TrackApiRequestBody
    /\ UNCHANGED <<now, submitted, settled, lastDelay, lastHint, failures, requests, cvars>>

\* the backoff timer of line 115 fires: this.addToQueue(promiseFunction, retryCount + 1)
RetryTimerFire ==
  \E i \in 1..Len(timers) :
    /\ timers[i].kind = "retry"
    /\ timers[i].at <= now
    /\ AddToQueue(timers[i].id, timers[i].retryCount, RemoveAt(timers, i))
    /\ UNCHANGED <<now, submitted, settled, lastDelay, lastHint, failures, qvars, requests, cvars>>

\* the timer of line 129 fires: this.processQueue()
DrainTimerFire ==
  \E i \in 1..Len(timers) :
    /\ timers[i].kind = "drain"
    /\ timers[i].at <= now
    /\ ProcessQueue(queue, RemoveAt(timers, i))
    /\ UNCHANGED <<now, submitted, settled, lastDelay, lastHint, failures, qvars, requests, cvars>>

\* time passes with no timer due
Tick ==
  \E d \in TickSteps :
    /\ now + d <= MaxTime
    /\ now' = now + d
    /\ UNCHANGED <<queue, processing, lastRequestTime, timers, running, submitted,
                   settled, dispatched, lastDelay, lastHint, failures, qvars, requests, cvars>>

\* time passes until some pending timer is due
TickToTimer ==
  \E i \in 1..Len(timers) :
    /\ timers[i].at > now
    /\ now' = timers[i].at
    /\ UNCHANGED <<queue, processing, lastRequestTime, timers, running, submitted,
                   settled, dispatched, lastDelay, lastHint, failures, qvars, requests, cvars>>

\* -------------------------------------------------------- mongoConnector
\* lines 14-15
ConnIdle ==
  /\ isConnecting = FALSE
  /\ connectionAttempts = 0
  /\ connectLog = [calls |-> 0, started |-> 0, failedInRow |-> 0, lastOutcome |-> "none",
                   resolved |-> 0, rejected |-> 0]

ConnectOutcomes == {"connected", "failed"}

\* the retry test off by one: connectionAttempts <= maxConnectionAttempts
ShouldReconnectOneMore(attempts) == attempts <= maxConnectionAttempts

\* line 63
ShouldReconnect(attempts) == attempts < maxConnectionAttempts

\* lines 27-36: connect(uri) up to its await, called with timer list tm and
\* log so far; a call that finds isConnecting set returns, its promise resolved
Connect(tm, log) ==
  /\ timers' = tm
  /\ IF isConnecting
     THEN /\ connectLog' = [log EXCEPT !.resolved = @ + 1]
          /\ UNCHANGED <<isConnecting, connectionAttempts>>
     ELSE /\ isConnecting' = TRUE
          /\ connectionAttempts' = connectionAttempts + 1
          /\ connectLog' = [log EXCEPT !.started = @ + 1]

\* server.js line 133, or any other caller of the exported connector
ConnectCall ==
  /\ connectLog.calls < MaxConnectCalls
  /\ Connect(timers, [connectLog EXCEPT !.calls = @ + 1])
  /\ UNCHANGED <<now, queue, processing, lastRequestTime, running, submitted, settled,
                 dispatched, lastDelay, lastHint, failures, qvars, requests>>

\* line 65: the retry timer fires: this.connect(uri)
ConnectTimerFire ==
  \E i \in 1..Len(timers) :
    /\ timers[i].kind = "connect"
    /\ timers[i].at <= now
    /\ Connect(RemoveAt(timers, i), connectLog)
    /\ UNCHANGED <<now, queue, processing, lastRequestTime, running, submitted, settled,
                   dispatched, lastDelay, lastHint, failures, qvars, requests>>

\* lines 41-70: mongoose.connect settles and connect() runs to its end
ConnectSettles ==
  \E outcome \in ConnectOutcomes :
    /\ isConnecting
    /\ isConnecting' = FALSE
    /\ IF outcome = "connected"
       THEN /\ connectionAttempts' = 0
            /\ timers' = timers
            /\ connectLog' = [connectLog EXCEPT !.failedInRow = 0, !.lastOutcome = outcome,
                                                !.resolved = @ + 1]
       ELSE IF ShouldReconnect(connectionAttempts)
       THEN /\ connectionAttempts' = connectionAttempts
            /\ timers' = Append(timers, Timer("connect", now + connectRetryDelay, 0, 0))
            /\ connectLog' = [connectLog EXCEPT !.failedInRow = @ + 1, !.lastOutcome = outcome,
                                                !.resolved = @ + 1]
       ELSE /\ connectionAttempts' = 0
            /\ timers' = timers
            /\ connectLog' = [connectLog EXCEPT !.failedInRow = 0, !.lastOutcome = outcome,
                                                !.resolved = @ + 1]
    /\ UNCHANGED <<now, queue, processing, lastRequestTime, running, submitted, settled,
                   dispatched, lastDelay, lastHint, failures, qvars, requests>>

GovNext ==
  \/ Submit
  \/ PaceTimerFire
  \/ RunComplete
  \/ RetryTimerFire
  \/ DrainTimerFire
  \/ Tick
  \/ TickToTimer

\* the governor alone: the quota monitor is not called
Init ==
  /\ now = StartTime
  /\ GovIdle
  /\ quotaFile = NoFile
  /\ writable = TRUE
  /\ storedQuota = minuteQuotaDefault
  /\ windowCalls = 0
  /\ QuotaIdle
  /\ ConnIdle

Next == GovNext

Spec == Init /\ [][Next]_vars

\* the connector alone
ConnNext ==
  \/ ConnectCall
  \/ ConnectTimerFire
  \/ ConnectSettles
  \/ Tick
  \/ TickToTimer

ConnSpec == Init /\ [][ConnNext]_vars

\* the quota monitor alone: nothing is submitted to the governor
QuotaSpecInit ==
  /\ QuotaInit
  /\ GovIdle
  /\ ConnIdle

QuotaNext ==
  \/ TrackApiRequest
  \/ CheckQuotaAvailable
  \/ QuotaTime

QuotaSpec == QuotaSpecInit /\ [][QuotaNext]_vars

\* the quota monitor over several runs of the process
RestartNext ==
  \/ TrackApiRequest
  \/ CheckQuotaAvailable
  \/ QuotaTime
  \/ Restart

\* files found by the first run
RestartFiles ==
  {NoFile, CorruptFile,
   StoredFile(<<14, 14>>, QuotaStartTime, StartDay - 1, FlashLimits, historyLimit),
   StoredFile(<<0, 0>>, QuotaStartTime, StartDay, <<OldMinuteQuota, OldDailyQuota>>, 0)}

RestartInit ==
  /\ QuotaInit
  /\ quotaFile \in RestartFiles
  /\ GovIdle
  /\ ConnIdle

RestartSpec == RestartInit /\ [][RestartNext]_vars

\* ------------------------------------------------------ request handlers
\* Math.ceil(t / 1000) for t >= 0
CeilSeconds(t) == (t + 999) \div 1000

\* the test of lines 262 and 451 on a field the status does not have
ShortCircuitNever(quotaStatus) == FALSE

\* lines 262 and 451: if (quotaStatus.isQuotaExceeded)
ShortCircuit(quotaStatus) == quotaStatus.isQuotaExceeded

\* lines 260-272 and 448-480: the check reports room and the handler records
AdmittedRequest ==
  /\ ~ShortCircuit(QuotaStatus)
  /\ TrackApiRequest

\* lines 260-269 and 448-477: the check reports exceeded and nothing is recorded
DeniedRequest ==
  /\ ShortCircuit(QuotaStatus)
  /\ CheckQuotaAvailable

\* the quota monitor as the handlers call it: every record follows a check
\* that reported room, made at the same instant
ProtocolNext ==
  \/ AdmittedRequest
  \/ DeniedRequest
  \/ QuotaTime

ProtocolSpec == QuotaSpecInit /\ [][ProtocolNext]_vars

\* a request whose handler has just called checkQuotaAvailable()
Request(kind, quotaStatus) ==
  [kind |-> kind, pc |-> "start", item |-> 0, checked |-> TRUE,
   exceeded |-> quotaStatus.isQuotaExceeded,
   status |-> 0, body |-> "none", retryAfter |-> -1]

\* a request whose handler answers without calling checkQuotaAvailable()
Ungated(kind) ==
  [kind |-> kind, pc |-> "start", item |-> 0, checked |-> FALSE, exceeded |-> FALSE,
   status |-> 0, body |-> "none", retryAfter |-> -1]

\* res.status(status).json(body)
Respond(req, status, body, retryAfter) ==
  [req EXCEPT !.pc = "done", !.status = status, !.body = body, !.retryAfter = retryAfter]

\* the handler of req awaits rateLimiter.addToQueue(...)
Waiting(req) == [req EXCEPT !.pc = "waiting", !.item = submitted + 1]

\* generateQuiz, lines 257-345: from the quota check to its next await, on a
\* request with (hasSession) or without a sessionId
GenerateQuiz ==
  \E hasSession \in BOOLEAN :
    LET quotaStatus == QuotaStatus
        req == Request("quiz", quotaStatus)
    IN /\ Len(requests) < MaxRequests
       /\ UNCHANGED cvars
       /\ IF ShortCircuit(quotaStatus)
          THEN /\ hasSession   \* the sessionId plays no part in a denied request
               /\ CheckQuotaAvailableBody
               /\ requests' = Append(requests,
                    Respond(req, 429, "busy", CeilSeconds(quotaStatus.timeToReset)))
               /\ UNCHANGED gvars
          ELSE /\ TrackApiRequestBody
               /\ IF hasSession
                  THEN /\ submitted < AppItems
                       /\ Enqueue
                       /\ requests' = Append(requests, Waiting(req))
                  ELSE /\ requests' = Append(requests, [req EXCEPT !.pc = "saving"])
                       /\ UNCHANGED gvars

\* generateQuiz, lines 335-345 and 386-392: newSession.save() completes
SessionSaved ==
  \E r \in 1..Len(requests), saved \in BOOLEAN :
    /\ requests[r].pc = "saving"
    /\ UNCHANGED cvars
    /\ IF saved
       THEN /\ submitted < AppItems
            /\ Enqueue
            /\ requests' = [requests EXCEPT ![r] = Waiting(@)]
       ELSE /\ requests' = [requests EXCEPT ![r] = Respond(@, 500, "error", -1)]
            /\ UNCHANGED gvars
    /\ UNCHANGED qvars

\* validateAnswer on an open-ended answer, lines 447-510; stored tells
\* whether Conversation.findOneAndUpdate of line 462 succeeds
ValidateAnswer ==
  \E stored \in BOOLEAN :
    LET quotaStatus == QuotaStatus
        req == Request("validate", quotaStatus)
    IN /\ Len(requests) < MaxRequests
       /\ UNCHANGED cvars
       /\ IF ShortCircuit(quotaStatus)
          THEN /\ CheckQuotaAvailableBody
               /\ requests' = Append(requests,
                    IF stored THEN Respond(req, 200, "fallback", -1)
                    ELSE Respond(req, 500, "error", -1))
               /\ UNCHANGED gvars
          ELSE /\ stored
               /\ TrackApiRequestBody
               /\ submitted < AppItems
               /\ Enqueue
               /\ requests' = Append(requests, Waiting(req))

\* validateAnswer on an answer that comes with its correctAnswer
\* (multiple-choice, true/false), lines 407-444: graded by comparison, stored
\* and answered; stored tells whether Conversation.findOneAndUpdate succeeds
GradeLocally ==
  \E stored \in BOOLEAN :
    /\ Len(requests) < MaxRequests
    /\ requests' = Append(requests,
         IF stored THEN Respond(Ungated("grade"), 200, "graded", -1)
         ELSE Respond(Ungated("grade"), 500, "error", -1))
    /\ UNCHANGED <<gvars, qvars, cvars>>

\* lines 347-392 and 512-565: the promise of addToQueue is settled and the
\* handler answers; saved tells whether conversation.save() of line 379 succeeds
HandlerResumes ==
  \E r \in 1..Len(requests), saved \in BOOLEAN :
    LET req == requests[r]
        outcome == settled[req.item]
    IN /\ req.pc = "waiting"
       /\ outcome \in {"resolved", "rejected", "exhausted"}
       /\ requests' = [requests EXCEPT ![r] =
            IF outcome = "resolved"
            THEN IF req.kind = "validate" THEN Respond(req, 200, "evaluation", -1)
                 ELSE IF saved THEN Respond(req, 200, "quiz", -1)
                 ELSE Respond(req, 500, "error", -1)
            ELSE Respond(req, 500, "error", -1)]
       /\ (outcome # "resolved" \/ req.kind = "validate") => saved
       /\ UNCHANGED <<gvars, qvars, cvars>>

\* a quota file an earlier run left WindowAge ms ago, n requests in its window
AppFile(n) ==
  File(TRUE, TRUE,
       QuotaData(n, n, StartTime - WindowAge, StartTime \div DayMs, minuteQuotaDefault,
                 dailyQuotaDefault, 0, StartTime - WindowAge, <<>>))

\* a quota file left WindowAge ms ago with the daily quota used up and the
\* minute window empty
SpentDayFile ==
  File(TRUE, TRUE, [AppFile(0).data EXCEPT !.requestsToday = dailyQuotaDefault])

AppFiles ==
  {NoFile, AppFile(minuteQuotaDefault - 1), AppFile(minuteQuotaDefault), SpentDayFile}

\* the handlers, the quota monitor and the governor together
AppInit ==
  /\ now = StartTime
  /\ GovIdle
  /\ quotaFile \in AppFiles
  /\ writable = TRUE
  /\ storedQuota = minuteQuotaDefault
  /\ windowCalls = IF quotaFile.exists THEN quotaFile.data.requestsThisMinute ELSE 0
  /\ QuotaIdle
  /\ ConnIdle

\* promiseFunction() completes; its 429 errors all carry a retryDelay
RunCompletePlain ==
  /\ RunComplete
  /\ \A i \in Ids : lastDelay'[i] # lastDelay[i] => lastHint'[i] # NoHint

AppNext ==
  \/ GenerateQuiz
  \/ SessionSaved
  \/ ValidateAnswer
  \/ GradeLocally
  \/ HandlerResumes
  \/ PaceTimerFire
  \/ RunCompletePlain
  \/ RetryTimerFire
  \/ DrainTimerFire
  \/ TickToTimer

AppSpec == AppInit /\ [][AppNext]_vars

\* timers fire and every promiseFunction() call completes
LiveSpec ==
  /\ Init /\ [][Next]_vars
  /\ WF_vars(PaceTimerFire)
  /\ WF_vars(RunComplete)
  /\ WF_vars(RetryTimerFire)
  /\ WF_vars(DrainTimerFire)
  /\ WF_vars(TickToTimer)

\* ------------------------------------------------------- derived notions
Terminal == {"resolved", "rejected", "exhausted"}

CountKind(kind) == Cardinality({k \in 1..Len(timers) : timers[k].kind = kind})

\* processQueue activations that have not reached their end
Activations == Len(running) + CountKind("pace") + CountKind("drain")

HasRetryTimer(i) == \E k \in 1..Len(timers) : timers[k].kind = "retry" /\ timers[k].id = i

InQueue(i) == \E k \in 1..Len(queue) : queue[k].id = i

IsRunning(i) == \E k \in 1..Len(running) : running[k].id = i

HasPaceTimer(i) == \E k \in 1..Len(timers) : timers[k].kind = "pace" /\ timers[k].id = i

Invoked == \E i \in Ids : dispatched'[i] > dispatched[i]

BaseDelay(h) == IF h = NoHint THEN 30000 ELSE h * 1000

\* ------------------------------------------------------------------ claims

\* C1: any two consecutive invocations of a work item's run, retried items
\* included, are at least minTimeBetweenRequests (30000 ms) apart at the
\* instants lastRequestTime is recorded; the second invocation of a process
\* started at StartTime happens no earlier than StartTime + 30000.
C1_MinInterval ==
  /\ [][(Invoked /\ \E i \in Ids : dispatched[i] > 0)
          => lastRequestTime' >= lastRequestTime + minTimeBetweenRequests]_vars
  /\ []((\E i, j \in Ids : dispatched[i] + dispatched[j] >= 2 /\ (i # j \/ dispatched[i] >= 2))
          => lastRequestTime >= StartTime + minTimeBetweenRequests)

\* two items submitted at t=0 and t=1000, the second invoked exactly 30000 ms
\* after the first
C1_Witness ==
  /\ submitted = 2
  /\ dispatched[1] = 1 /\ dispatched[2] = 1
  /\ lastRequestTime = StartTime + minTimeBetweenRequests
  /\ IsRunning(2)

\* C2: at most one run is in flight and at most one processQueue activation
\* (pacing sleep, run in flight or pending 100 ms drain timer) is alive, and
\* an alive activation holds this.processing.
C2_SingleDrain ==
  /\ Len(running) <= 1
  /\ Activations <= 1
  /\ Activations = 1 => processing

\* the backoff timer of one item is due while the run of another is in flight
C2_Witness ==
  /\ Len(running) = 1
  /\ \E k \in 1..Len(timers) : timers[k].kind = "retry" /\ timers[k].at <= now

\* C3 as stated: an item rate-limited on every attempt is dispatched 4 times,
\* each backoff delay is double the previous one, and it ends exhausted.
C3_Original ==
  /\ [](\A i \in Ids : settled[i] = "exhausted" => dispatched[i] = maxRetries + 1)
  /\ [][\A i \in Ids :
          (HasRetryTimer(i)' /\ ~HasRetryTimer(i) /\ lastDelay[i] # -1)
            => lastDelay'[i] = 2 * lastDelay[i] /\ lastDelay'[i] > lastDelay[i]]_vars

\* C3 amended: an item rate-limited on every attempt is retried exactly
\* maxRetries times (4 dispatches) and then rejected as exhausted; the delay
\* before the retry that follows failure number k+1 is base * 2^k, base being
\* the delay that failure suggests (30000 ms when it suggests none), so the
\* delays double when successive failures carry the same non-zero suggestion.
C3_Backoff ==
  /\ [](\A i \in Ids : settled[i] = "exhausted" =>
          /\ dispatched[i] = maxRetries + 1
          /\ ~InQueue(i) /\ ~IsRunning(i) /\ ~HasRetryTimer(i) /\ ~HasPaceTimer(i))
  /\ [](\A i \in Ids : HasRetryTimer(i) => dispatched[i] <= maxRetries)
  /\ [][\A i \in Ids :
          (HasRetryTimer(i)' /\ ~HasRetryTimer(i)) =>
            /\ lastDelay'[i] = BaseDelay(lastHint'[i]) * Pow2(dispatched[i] - 1)
            /\ \E k \in 1..Len(timers') :
                 /\ timers'[k] = Timer("retry", now + lastDelay'[i], i, dispatched[i])
            /\ (lastDelay[i] # -1 /\ lastHint'[i] = lastHint[i])
                 => /\ lastDelay'[i] = 2 * lastDelay[i]
                    /\ lastDelay[i] > 0 => lastDelay'[i] > lastDelay[i]]_vars

\* an item was rejected as exhausted after three backoffs of 30, 60 and 120 s
C3_Witness ==
  \E i \in Ids :
    /\ settled[i] = "exhausted"
    /\ dispatched[i] = 4
    /\ lastDelay[i] = 120000

\* C4: an item whose run fails with a non-429 error is rejected at once: it
\* is not in the queue, not running and has no timer, it is never invoked
\* again, and if the failure was its first attempt it was dispatched once.
C4_NoRetryOnOtherError ==
  /\ [](\A i \in Ids : settled[i] = "rejected" =>
          /\ ~InQueue(i) /\ ~IsRunning(i) /\ ~HasRetryTimer(i) /\ ~HasPaceTimer(i)
          /\ lastDelay[i] = -1 => dispatched[i] = 1)
  /\ [][\A i \in Ids : settled[i] = "rejected" =>
          dispatched'[i] = dispatched[i] /\ settled'[i] = "rejected"]_vars

\* an item was rejected on its first attempt and the drain went on to the next
C4_Witness ==
  \E i, j \in Ids :
    /\ settled[i] = "rejected" /\ dispatched[i] = 1
    /\ i # j /\ dispatched[j] >= 1

\* C5: with timers firing and runs completing, from some point on no
\* submitted item is pending and the queue is empty, so every submitted item
\* is eventually resolved or rejected; and whenever the queue is non-empty a
\* processQueue activation is alive to drain it.
C5_EventuallySettled ==
  /\ <>[](Len(queue) = 0 /\ \A i \in Ids : settled[i] # "pending")
  /\ [](Len(queue) > 0 => Activations >= 1 /\ processing)

\* both items are settled, one of them after a retry
C5_Witness ==
  /\ \A i \in Ids : settled[i] \in Terminal
  /\ \E i \in Ids : dispatched[i] >= 2
  /\ timers = <<>> /\ ~processing

\* the last element of a non-empty sequence
Last(h) == h[Len(h)]

AfterRecord == lastResult.op = "record"

\* C6 as stated: requestsThisMinute is the number of calls of the current
\* window, and a call is flagged exactly when that number exceeds minuteQuota.
C6_Original ==
  AfterRecord =>
    /\ inMemoryQuotaData.requestsThisMinute = windowCalls
    /\ lastResult.isQuotaExceeded <=> windowCalls > inMemoryQuotaData.minuteQuota

\* C6 amended: requestsThisMinute is the number of calls of the current
\* window; a call is flagged exactly when that number exceeds minuteQuota or
\* requestsToday has reached dailyQuota, so while requestsToday is below
\* dailyQuota the first flagged call of a window is call minuteQuota + 1.
C6_WindowCount ==
  AfterRecord =>
    /\ inMemoryQuotaData.requestsThisMinute = windowCalls
    /\ lastResult.requestsThisMinute = windowCalls
    /\ lastResult.isQuotaExceeded <=>
         \/ windowCalls > inMemoryQuotaData.minuteQuota
         \/ inMemoryQuotaData.requestsToday >= inMemoryQuotaData.dailyQuota
    /\ inMemoryQuotaData.requestsToday < inMemoryQuotaData.dailyQuota =>
         (lastResult.isQuotaExceeded <=> windowCalls > inMemoryQuotaData.minuteQuota)

\* the first flagged call of a window opened by this process, daily quota not reached
C6_Witness ==
  /\ AfterRecord
  /\ lastResult.isQuotaExceeded
  /\ windowCalls = inMemoryQuotaData.minuteQuota + 1
  /\ inMemoryQuotaData.lastMinuteTimestamp > QuotaStartTime
  /\ inMemoryQuotaData.requestsToday < inMemoryQuotaData.dailyQuota

\* C7 as stated: with minuteQuota = q stored and the daily quota not reached,
\* the calls of one window are not flagged up to call q and flagged from q + 1.
C7_Original ==
  (AfterRecord /\ inMemoryQuotaData.requestsToday < inMemoryQuotaData.dailyQuota) =>
    (lastResult.isQuotaExceeded <=> windowCalls > storedQuota)

\* C7 amended: a stored minuteQuota below 15 is replaced by 15 when the state
\* is loaded, so with q stored and the daily quota not reached the calls of
\* one window are flagged from call max(q, 15) + 1 on; with q = 2 three calls
\* return [false, false, false].
C7_StoredQuota ==
  /\ inMemoryQuotaData # NoData =>
       inMemoryQuotaData.minuteQuota = Max(storedQuota, minuteQuotaDefault)
  /\ (AfterRecord /\ inMemoryQuotaData.requestsToday < inMemoryQuotaData.dailyQuota) =>
       (lastResult.isQuotaExceeded <=> windowCalls > Max(storedQuota, minuteQuotaDefault))
  /\ (AfterRecord /\ storedQuota = OldMinuteQuota /\ windowCalls = OldMinuteQuota + 1
       /\ inMemoryQuotaData.requestsToday < inMemoryQuotaData.dailyQuota) =>
       ~lastResult.isQuotaExceeded

\* call q + 1 of a window, for a stored q = 16 that the loader keeps
C7_Witness ==
  /\ AfterRecord
  /\ storedQuota = HighMinuteQuota
  /\ windowCalls = HighMinuteQuota + 1
  /\ lastResult.isQuotaExceeded
  /\ inMemoryQuotaData.requestsToday < inMemoryQuotaData.dailyQuota

\* C8: on a daily reset the entry appended to history holds the requestsToday
\* and the quotaExceededCount the state had before the reset.
C8_HistoryKeepsPriorDay ==
  (AfterRecord /\ rolled.happened) =>
    /\ Last(inMemoryQuotaData.history).requests = rolled.requests
    /\ Last(inMemoryQuotaData.history).quotaExceeds = rolled.quotaExceeds

\* C9: history never has more than 30 entries, in memory or in the file, and
\* a daily reset appends one entry, dropping the oldest one when there were 30.
C9_HistoryBounded ==
  /\ Len(inMemoryQuotaData.history) <= historyLimit
  /\ Len(quotaFile.data.history) <= historyLimit
  /\ (AfterRecord /\ rolled.happened) =>
       LET h == inMemoryQuotaData.history
           kept == IF Len(rolled.history) >= historyLimit
                   THEN Tail(rolled.history) ELSE rolled.history
       IN /\ Len(h) = Len(kept) + 1
          /\ SubSeq(h, 1, Len(h) - 1) = kept
          /\ Last(h).date > rolled.day

\* a daily reset on a history of 30 entries
C9_Witness ==
  /\ AfterRecord /\ rolled.happened
  /\ Len(rolled.history) = historyLimit
  /\ Len(inMemoryQuotaData.history) = historyLimit
  /\ quotaFile.data = inMemoryQuotaData

CheckStep == lastResult'.op = "check" /\ nRecords' = nRecords /\ now' = now

\* C10 as stated: only trackApiRequest changes the file, and two consecutive
\* checks return the same counts.
C10_Original ==
  /\ [][quotaFile' # quotaFile => lastResult'.op = "record"]_vars
  /\ [][(CheckStep /\ lastResult.op = "check") =>
          /\ lastResult'.requestsThisMinute = lastResult.requestsThisMinute
          /\ lastResult'.requestsToday = lastResult.requestsToday]_vars

\* C10 amended: checkQuotaAvailable never changes counters, window start, day
\* key or history and never writes once the state is in memory; the only
\* writes it causes are those of the first load of the process (the file is
\* created with the defaults when absent, stored limits below 15 are raised
\* to 15/120); two consecutive checks return the same counts.
C10_CheckReadOnly ==
  [][CheckStep =>
      /\ inMemoryQuotaData # NoData =>
           quotaFile' = quotaFile /\ inMemoryQuotaData' = inMemoryQuotaData
      /\ quotaFile' # quotaFile =>
           /\ inMemoryQuotaData = NoData /\ writable
           /\ quotaFile' = File(TRUE, TRUE, inMemoryQuotaData')
           /\ \/ ~quotaFile.exists /\ inMemoryQuotaData' = InitialData
              \/ /\ quotaFile.exists /\ quotaFile.valid
                 /\ quotaFile.data.minuteQuota < minuteQuotaDefault
                 /\ inMemoryQuotaData' =
                      [quotaFile.data EXCEPT !.minuteQuota = minuteQuotaDefault,
                                             !.dailyQuota = dailyQuotaDefault]
      /\ (quotaFile.exists /\ quotaFile.valid /\ inMemoryQuotaData = NoData) =>
           /\ inMemoryQuotaData'.requestsToday = quotaFile.data.requestsToday
           /\ inMemoryQuotaData'.requestsThisMinute = quotaFile.data.requestsThisMinute
           /\ inMemoryQuotaData'.lastMinuteTimestamp = quotaFile.data.lastMinuteTimestamp
           /\ inMemoryQuotaData'.dailyReset = quotaFile.data.dailyReset
           /\ inMemoryQuotaData'.history = quotaFile.data.history
      /\ lastResult'.requestsThisMinute = inMemoryQuotaData'.requestsThisMinute
      /\ lastResult'.requestsToday = inMemoryQuotaData'.requestsToday
      /\ lastResult.op = "check" =>
           /\ lastResult'.requestsThisMinute = lastResult.requestsThisMinute
           /\ lastResult'.requestsToday = lastResult.requestsToday]_vars

\* a check after a full window of records, with the window elapsed and the
\* file holding what the last record wrote
C10_Witness ==
  /\ lastResult.op = "check"
  /\ nRecords > 0
  /\ now - inMemoryQuotaData.lastMinuteTimestamp >= minuteWindow
  /\ lastResult.requestsThisMinute > 0
  /\ quotaFile.data = inMemoryQuotaData

\* C11: a record called right after a check that returned isQuotaExceeded =
\* false, at the same instant and with no quota operation in between,
\* returns isQuotaExceeded = false.
C11_AdmittedNeverFlagged ==
  [][(lastResult.op = "check" /\ ~lastResult.isQuotaExceeded /\ lastResult.at = now
        /\ lastResult'.op = "record" /\ nRecords' = nRecords + 1)
       => ~lastResult'.isQuotaExceeded]_vars

\* the state before a trackApiRequest step, after the load of initQuotaLog
Loaded ==
  IF inMemoryQuotaData # NoData THEN inMemoryQuotaData
  ELSE IF quotaFile.exists /\ quotaFile.valid THEN quotaFile.data
  ELSE InitialData

RecordStep == lastResult'.op = "record" /\ nRecords' = nRecords + 1

\* C19: every trackApiRequest call adds exactly 1 to requestsToday and to
\* requestsThisMinute (counted from 0 when the day or the window has just
\* been reset), whether or not the call exceeds; its flag is
\* requestsThisMinute > minuteQuota OR requestsToday >= dailyQuota on the
\* incremented values; quotaExceededCount (counted from 0 on a daily reset)
\* grows by 1 when the flag is true and is unchanged otherwise.
C19_IncrementThenTest ==
  [][RecordStep =>
      LET newDay == Loaded.dailyReset # now \div DayMs
          newWindow == now - Loaded.lastMinuteTimestamp >= 60000
          today == (IF newDay THEN 0 ELSE Loaded.requestsToday) + 1
          minute == (IF newWindow THEN 0 ELSE Loaded.requestsThisMinute) + 1
          exceeds == IF newDay THEN 0 ELSE Loaded.quotaExceededCount
          flag == lastResult'.isQuotaExceeded
          after == inMemoryQuotaData'
      IN /\ after.requestsToday = today
         /\ after.requestsThisMinute = minute
         /\ lastResult'.requestsToday = today
         /\ lastResult'.requestsThisMinute = minute
         /\ flag <=> (minute > after.minuteQuota \/ today >= after.dailyQuota)
         /\ after.quotaExceededCount = exceeds + (IF flag THEN 1 ELSE 0)]_vars

\* a flagged call whose counters still went up: the third flagged call of a
\* window, with the daily quota not reached
C19_Witness ==
  /\ AfterRecord
  /\ lastResult.isQuotaExceeded
  /\ inMemoryQuotaData.quotaExceededCount = 3
  /\ inMemoryQuotaData.requestsThisMinute = inMemoryQuotaData.minuteQuota + 3
  /\ inMemoryQuotaData.requestsToday < inMemoryQuotaData.dailyQuota

OpStep == lastResult' # lastResult /\ lastResult'.op \in {"record", "check"}

\* C15: a file that cannot be read or parsed makes the first call start from
\* the default initial state; and whether writes succeed or all fail, every
\* call returns, with the same flag, timeToReset and counters, and leaves the
\* same state in memory, as in the process whose writes all succeed.
C15_StorageFailuresHidden ==
  /\ [](shadow.data = inMemoryQuotaData /\ shadow.result = lastResult)
  /\ [][(inMemoryQuotaData = NoData /\ quotaFile = CorruptFile /\ OpStep) =>
          /\ lastResult'.op = "check" =>
               /\ quotaFile' = quotaFile
               /\ inMemoryQuotaData' = InitialData
               /\ ~lastResult'.isQuotaExceeded /\ lastResult'.requestsToday = 0
          /\ lastResult'.op = "record" =>
               /\ inMemoryQuotaData' =
                    [InitialData EXCEPT !.requestsToday = 1, !.requestsThisMinute = 1]
               /\ ~lastResult'.isQuotaExceeded /\ lastResult'.requestsToday = 1]_vars

\* sixteen calls on an unreadable file whose every write fails: the
\* sixteenth is the first one flagged
C15_Witness ==
  /\ quotaFile = CorruptFile /\ ~writable
  /\ AfterRecord /\ nRecords = minuteQuotaDefault + 1
  /\ lastResult.requestsThisMinute = minuteQuotaDefault + 1
  /\ lastResult.isQuotaExceeded

RestartStep == restarts' = restarts + 1

\* C16: what a record with a successful save leaves in memory is what the
\* file holds; a restart loses the memory and keeps the file; and the first
\* check or record of the new process starts from the counters, window
\* start, day key and history of the file (limits included: a process never
\* leaves a minuteQuota below 15 in its memory), not from the defaults.
C16_SurvivesRestart ==
  /\ []((writable /\ nRecords > 0 /\ inMemoryQuotaData # NoData) =>
          /\ quotaFile = File(TRUE, TRUE, inMemoryQuotaData)
          /\ inMemoryQuotaData.minuteQuota >= minuteQuotaDefault)
  /\ [][RestartStep => quotaFile' = quotaFile]_vars
  /\ [][(restarts > 0 /\ inMemoryQuotaData = NoData /\ writable /\ nRecords > 0 /\ OpStep) =>
          LET f == quotaFile.data
              after == inMemoryQuotaData'
              newDay == f.dailyReset # now \div DayMs
              newWindow == now - f.lastMinuteTimestamp >= 60000
          IN /\ lastResult'.op = "check" =>
                  /\ after = f
                  /\ lastResult'.requestsToday = lastResult.requestsToday
                  /\ lastResult'.requestsThisMinute = lastResult.requestsThisMinute
             /\ lastResult'.op = "record" =>
                  /\ after.requestsToday =
                       (IF newDay THEN 0 ELSE lastResult.requestsToday) + 1
                  /\ after.requestsThisMinute =
                       (IF newWindow THEN 0 ELSE lastResult.requestsThisMinute) + 1
                  /\ after.lastMinuteTimestamp =
                       IF newWindow THEN now ELSE f.lastMinuteTimestamp
                  /\ after.minuteQuota = f.minuteQuota /\ after.dailyQuota = f.dailyQuota
                  /\ ~newDay => after.history = f.history /\ after.dailyReset = f.dailyReset
                  /\ newDay => SubSeq(after.history, 1, Len(after.history) - 1) =
                                 IF Len(f.history) >= historyLimit
                                 THEN Tail(f.history) ELSE f.history]_vars

\* after sixteen records and a restart, the first record of the new process
\* is call seventeen of the same window and is flagged
C16_Witness ==
  /\ restarts = 1 /\ writable
  /\ AfterRecord /\ lastResult.at = QuotaStartTime
  /\ nRecords = minuteQuotaDefault + 2
  /\ lastResult.requestsThisMinute = minuteQuotaDefault + 2
  /\ lastResult.isQuotaExceeded

\* a processQueue activation starts its pacing sleep in this step
StartsPace == CountKind("pace")' > CountKind("pace")

\* a processQueue activation invokes its run in this step without sleeping
StartsRun == Len(running') > Len(running) /\ CountKind("pace")' = CountKind("pace")

\* the item a processQueue activation takes in this step
TakenItem ==
  IF StartsPace
  THEN [id |-> Last(timers').id, retryCount |-> Last(timers').retryCount]
  ELSE Last(running')

\* the backoff timer of item i fires in this step
RetryTimerFires(i) ==
  /\ HasRetryTimer(i)
  /\ ~\E k \in 1..Len(timers') : timers'[k].kind = "retry" /\ timers'[k].id = i

\* C13: entries join the queue at the back and leave it from the front, and
\* the item an activation takes is the oldest entry; first dispatches follow
\* submission order; a retried item joins the queue only in the step its
\* backoff timer fires, so items dispatched while it waits overtake it and
\* entries that join after it are taken after it.
C13_Fifo ==
  /\ [][\/ queue' = queue
        \/ Len(queue) > 0 /\ queue' = Tail(queue)
        \/ Len(queue') = Len(queue) + 1 /\ SubSeq(queue', 1, Len(queue)) = queue]_vars
  /\ [][(StartsPace \/ StartsRun) =>
          IF Len(queue) > 0
          THEN TakenItem = Head(queue) /\ queue' = Tail(queue)
          ELSE /\ queue' = <<>>
               /\ \/ submitted' = submitted + 1 /\ TakenItem = [id |-> submitted', retryCount |-> 0]
                  \/ RetryTimerFires(TakenItem.id)]_vars
  /\ [][\A j \in Ids : (dispatched[j] = 0 /\ dispatched'[j] = 1) =>
          \A i \in 1..(j - 1) : dispatched[i] >= 1]_vars
  /\ [][\A k \in 1..Len(queue') :
          (k > Len(queue) /\ queue'[k].retryCount > 0) =>
            /\ RetryTimerFires(queue'[k].id)
            /\ \E t \in 1..Len(timers) :
                 timers[t] = Timer("retry", timers[t].at, queue'[k].id, queue'[k].retryCount)
                 /\ timers[t].at <= now]_vars

\* item 2 runs for the first time while item 1, which failed before it and
\* has re-entered the queue, waits behind it
C13_Witness ==
  /\ IsRunning(2) /\ dispatched[2] = 1
  /\ dispatched[1] = 1 /\ lastDelay[1] # -1
  /\ queue = <<[id |-> 1, retryCount |-> 1]>>

\* the failed run of item i, while it is in flight
RunOf(i) == CHOOSE r \in {running[k] : k \in 1..Len(running)} : r.id = i

TwoToThe(k) == CASE k = 0 -> 1 [] k = 1 -> 2 [] k = 2 -> 4 [] k = 3 -> 8

\* C14: a rate-limit failure at retry count k < maxRetries sets the
\* re-submission timer to base * 2^k ms from now, base being 1000 times the
\* seconds the error suggests, or 30000 when it suggests none (5 s gives 5000
\* at k = 0 and 10000 at k = 1); when the timer fires the item joins the
\* queue with retry count k + 1.
C14_RetryTimer ==
  /\ [][\A i \in Ids : (HasRetryTimer(i)' /\ ~HasRetryTimer(i)) =>
          LET k == RunOf(i).retryCount
              hint == lastHint'[i]
              base == IF hint = NoHint THEN 30000 ELSE 1000 * hint
              t == Last(SelectSeq(timers', LAMBDA x : x.kind = "retry" /\ x.id = i))
          IN /\ IsRunning(i) /\ ~IsRunning(i)'
             /\ k < maxRetries
             /\ t.at = now + base * TwoToThe(k)
             /\ t.retryCount = k + 1
             /\ (hint = 5 /\ k = 0) => t.at - now = 5000
             /\ (hint = 5 /\ k = 1) => t.at - now = 10000]_vars
  /\ [][(CountKind("retry")' < CountKind("retry")) =>
          \E t \in 1..Len(timers) :
            /\ timers[t].kind = "retry" /\ timers[t].at <= now
            /\ LET item == [id |-> timers[t].id, retryCount |-> timers[t].retryCount]
               IN \/ /\ Len(queue') = Len(queue) + 1 /\ Last(queue') = item
                     /\ timers' = RemoveAt(timers, t)
                  \/ /\ StartsRun /\ Last(running') = item
                     /\ timers' = RemoveAt(timers, t)
                  \/ /\ StartsPace /\ TakenItem = item
                     /\ SubSeq(timers', 1, Len(timers') - 1) = RemoveAt(timers, t)]_vars

\* a second failure suggesting 5 s has set the timer of the third attempt
\* 10000 ms ahead
C14_Witness ==
  \E i \in Ids, t \in 1..Len(timers) :
    /\ timers[t] = Timer("retry", now + 10000, i, 2)
    /\ lastHint[i] = 5 /\ dispatched[i] = 2

\* C18 as stated: no run is invoked while a pacing sleep or a backoff timer
\* of the governor is outstanding.
C18_Original ==
  [][Invoked => CountKind("pace")' = 0 /\ CountKind("retry")' = 0]_vars

\* C18 amended: no run is invoked while a pacing sleep is outstanding, and an
\* item is not invoked while its own backoff timer is outstanding; the
\* backoff of one item does not hold back the others, which are dispatched
\* during it; items are enqueued at any time.
C18_NoDispatchWhilePacing ==
  /\ [][Invoked =>
          /\ CountKind("pace")' = 0
          /\ \A i \in Ids : dispatched'[i] > dispatched[i] => ~HasRetryTimer(i)']_vars
  /\ [](CountKind("pace") > 0 => Len(running) = 0)
  /\ [](\A i \in Ids : HasRetryTimer(i) => ~IsRunning(i) /\ ~InQueue(i) /\ ~HasPaceTimer(i))

\* item 2 is invoked while the backoff timer of item 1 is outstanding, after
\* a pacing sleep during which item 2 waited
C18_Witness ==
  /\ IsRunning(2) /\ lastRequestTime = now
  /\ \E t \in 1..Len(timers) : timers[t].kind = "retry" /\ timers[t].id = 1 /\ timers[t].at > now
  /\ now >= StartTime + minTimeBetweenRequests

\* a request arrives at generateQuiz or validateAnswer in this step
Arrival == Len(requests') = Len(requests) + 1

\* C12: a request for the AI backend (a quiz, or an answer sent without its
\* correctAnswer) arriving while the window is current and requestsThisMinute
\* has reached minuteQuota is answered at once with the busy response (429,
\* generateQuiz) or the fallback evaluation (validateAnswer), without record
\* and without addToQueue: requestsThisMinute, requestsToday, the queue,
\* lastRequestTime and the rest of the governor are unchanged, and the busy
\* response carries retryAfter = timeToReset rounded up to whole seconds; any
\* other request is recorded.
C12_DeniedTouchesNothing ==
  /\ [][(Arrival /\ Last(requests').kind \in {"quiz", "validate"}) =>
          LET req == Last(requests')
              elapsed == now - Loaded.lastMinuteTimestamp
              full == elapsed < 60000 /\ Loaded.requestsThisMinute >= Loaded.minuteQuota
              left == 60000 - elapsed
          IN /\ req.exceeded <=> full
             /\ req.exceeded =>
                  /\ req.pc = "done" /\ req.item = 0
                  /\ nRecords' = nRecords
                  /\ inMemoryQuotaData'.requestsThisMinute = Loaded.requestsThisMinute
                  /\ inMemoryQuotaData'.requestsToday = Loaded.requestsToday
                  /\ UNCHANGED <<queue, lastRequestTime, processing, timers, running,
                                 submitted, settled, dispatched>>
                  /\ req.kind = "quiz" =>
                       /\ req.status = 429 /\ req.body = "busy"
                       /\ 1000 * (req.retryAfter - 1) < left /\ left <= 1000 * req.retryAfter
                  /\ req.kind = "validate" =>
                       req.body \in {"fallback", "error"} /\ req.retryAfter = -1
             /\ ~req.exceeded =>
                  /\ nRecords' = nRecords + 1
                  /\ req.pc \in {"waiting", "saving"}
                  /\ inMemoryQuotaData'.requestsToday > 0]_vars
  /\ [](\A r \in 1..Len(requests) :
          requests[r].exceeded => requests[r].item = 0 /\ requests[r].pc = "done")

\* with 39500 ms of the window left, a quiz request is answered "retry in 40
\* seconds" while the item of the request admitted before it is in flight
C12_Witness ==
  /\ Len(requests) = 2
  /\ requests[1].pc = "waiting" /\ IsRunning(requests[1].item)
  /\ requests[2].kind = "quiz" /\ requests[2].exceeded
  /\ requests[2].status = 429 /\ requests[2].retryAfter = 40
  /\ nRecords = 1 /\ Len(queue) = 0

\* C17: a request whose work item was rejected with the retries-exhausted
\* error is answered with the busy (or fallback) response, not with the
\* generic processing error.
C17_ExhaustedAnsweredBusy ==
  \A r \in 1..Len(requests) :
    (requests[r].pc = "done" /\ requests[r].item # 0
       /\ settled[requests[r].item] = "exhausted")
      => requests[r].body \in {"busy", "fallback"}

\* C21: the minute window is rolling: a record made 60000 ms or more after
\* minuteWindowStart sets minuteWindowStart to the instant of the call, not
\* to a clock boundary, and counts itself as call 1 of the new window; a
\* record made less than 60000 ms after it leaves minuteWindowStart as it
\* was and adds 1 to requestsThisMinute without resetting it.
C21_RollingWindow ==
  [][RecordStep =>
      LET before == Loaded
          after == inMemoryQuotaData'
          elapsed == now - before.lastMinuteTimestamp
      IN /\ elapsed >= 60000 =>
              /\ after.lastMinuteTimestamp = now
              /\ after.requestsThisMinute = 1
              /\ lastResult'.requestsThisMinute = 1
         /\ elapsed < 60000 =>
              /\ after.lastMinuteTimestamp = before.lastMinuteTimestamp
              /\ after.requestsThisMinute = before.requestsThisMinute + 1
              /\ after.requestsThisMinute > 0]_vars

\* after sixteen earlier calls, a record made half a minute past a clock
\* minute opens a window that starts at the instant of that call
C21_Witness ==
  /\ AfterRecord /\ lastResult.at = now
  /\ nRecords = minuteQuotaDefault + 2
  /\ inMemoryQuotaData.lastMinuteTimestamp = now
  /\ now % minuteWindow = 30000
  /\ now > QuotaStartTime
  /\ inMemoryQuotaData.requestsThisMinute = 1
  /\ ~lastResult.isQuotaExceeded

\* C22: the first record on a date different from dayKey sets dayKey to that
\* date, counts requestsToday from 0 (1 after the call) and
\* quotaExceededCount from 0 (plus 1 if the call itself is flagged) and
\* appends one history entry, dropping the oldest of 30; a record on the date
\* of dayKey keeps dayKey and history, adds 1 to requestsToday and never
\* lowers quotaExceededCount; after any record dayKey is the current date,
\* so a date change resets once; and a call at which the date has changed
\* and the window has elapsed applies both resets, the daily one first.
C22_DailyResetOnce ==
  /\ [][RecordStep =>
          LET before == Loaded
              after == inMemoryQuotaData'
              flagged == IF lastResult'.isQuotaExceeded THEN 1 ELSE 0
              kept == IF Len(before.history) >= historyLimit
                      THEN Tail(before.history) ELSE before.history
          IN /\ after.dailyReset = now \div DayMs
             /\ rolled'.happened <=> before.dailyReset # now \div DayMs
             /\ before.dailyReset # now \div DayMs =>
                  /\ after.requestsToday = 1
                  /\ lastResult'.requestsToday = 1
                  /\ after.quotaExceededCount = flagged
                  /\ Len(after.history) = Len(kept) + 1
                  /\ SubSeq(after.history, 1, Len(kept)) = kept
                  /\ now - before.lastMinuteTimestamp >= 60000 =>
                       after.requestsThisMinute = 1 /\ after.lastMinuteTimestamp = now
             /\ before.dailyReset = now \div DayMs =>
                  /\ after.requestsToday = before.requestsToday + 1
                  /\ after.quotaExceededCount = before.quotaExceededCount + flagged
                  /\ after.history = before.history]_vars
  /\ [](inMemoryQuotaData # NoData /\ nRecords > 0 => inMemoryQuotaData.dailyReset <= Today)

\* sixteen records before midnight, the last one flagged, then the first
\* record of the next day, made after the window has elapsed: both resets
\* happen in that call
C22_Witness ==
  /\ AfterRecord /\ lastResult.at = now /\ rolled.happened
  /\ rolled.requests = minuteQuotaDefault + 1 /\ rolled.quotaExceeds = 1
  /\ rolled.day = StartDay /\ inMemoryQuotaData.dailyReset = StartDay + 1
  /\ inMemoryQuotaData.requestsToday = 1
  /\ inMemoryQuotaData.quotaExceededCount = 0
  /\ inMemoryQuotaData.requestsThisMinute = 1
  /\ inMemoryQuotaData.lastMinuteTimestamp = now
  /\ Len(inMemoryQuotaData.history) = Len(rolled.history) + 1

\* the entries of sequence s that belong to item i
Of(s, i) == SelectSeq(s, LAMBDA x : x.id = i)

\* the sleeps and backoffs of item i
TimersOf(i) == SelectSeq(timers, LAMBDA x : x.id = i /\ x.kind \in {"pace", "retry"})

\* where item i is in its life
Phase(i) ==
  CASE settled[i] = "none" -> "New"
    [] InQueue(i) -> "Queued"
    [] HasPaceTimer(i) \/ IsRunning(i) -> "Dispatching"
    [] HasRetryTimer(i) -> "Waiting"
    [] settled[i] = "resolved" -> "Succeeded"
    [] settled[i] \in {"rejected", "exhausted"} -> "FailedPermanently"
    [] OTHER -> "Lost"

\* an entry is pushed on the queue and shifted from it in the same step when
\* no drain is active, so Queued is then passed through within the step
Transitions ==
  {<<"New", "Queued">>, <<"New", "Dispatching">>,
   <<"Queued", "Dispatching">>,
   <<"Dispatching", "Succeeded">>, <<"Dispatching", "FailedPermanently">>,
   <<"Dispatching", "Waiting">>,
   <<"Waiting", "Queued">>, <<"Waiting", "Dispatching">>}

\* C23: a submitted item is in exactly one of Queued, Dispatching (pacing
\* sleep or run in flight), Waiting (backoff timer), Succeeded and
\* FailedPermanently, and moves only Queued -> Dispatching -> Succeeded |
\* FailedPermanently | Waiting -> Queued; its retryCount is within
\* 0..maxRetries and is one more after each Waiting; the promise the caller
\* holds is settled at most once; a settled item is nowhere in the governor
\* and is never dispatched or enqueued again.
C23_ItemLifecycle ==
  /\ [](\A i \in Ids :
          /\ Phase(i) # "Lost"
          /\ Len(Of(queue, i)) + Len(Of(running, i)) + Len(TimersOf(i))
               = IF settled[i] = "pending" THEN 1 ELSE 0
          /\ \A k \in 1..Len(queue) :
               queue[k].id = i => queue[k].retryCount = dispatched[i]
          /\ \A k \in 1..Len(timers) :
               (timers[k].id = i /\ timers[k].kind \in {"pace", "retry"})
                 => timers[k].retryCount = dispatched[i]
          /\ \A k \in 1..Len(running) :
               running[k].id = i => running[k].retryCount = dispatched[i] - 1
          /\ Phase(i) = "Waiting" => dispatched[i] >= 1
          /\ dispatched[i] <= maxRetries + 1
          /\ Phase(i) \in {"Queued", "Waiting"} => dispatched[i] <= maxRetries)
  /\ [](\A k \in 1..Len(queue) : queue[k].retryCount \in 0..maxRetries)
  /\ [](\A k \in 1..Len(running) : running[k].retryCount \in 0..maxRetries)
  /\ [](\A k \in 1..Len(timers) : timers[k].retryCount \in 0..maxRetries)
  /\ [][\A i \in Ids :
          /\ Phase(i)' # Phase(i) => <<Phase(i), Phase(i)'>> \in Transitions
          /\ settled[i] \in Terminal =>
               /\ settled'[i] = settled[i]
               /\ dispatched'[i] = dispatched[i]
               /\ ~InQueue(i)' /\ ~IsRunning(i)' /\ ~HasPaceTimer(i)' /\ ~HasRetryTimer(i)'
          /\ settled[i] = "pending" => settled'[i] # "none"
          /\ (Phase(i) = "Waiting" /\ Phase(i)' = "Queued") =>
               Last(queue') = [id |-> i, retryCount |-> dispatched[i]]
          /\ (Phase(i) = "Dispatching" /\ Phase(i)' = "Waiting") =>
               /\ IsRunning(i)
               /\ Last(Of(SelectSeq(timers', LAMBDA x : x.kind = "retry"), i)).retryCount
                    = RunOf(i).retryCount + 1]_vars

\* an item that failed three times with 429, waited three times and
\* succeeded on its fourth dispatch, after the other item was rejected
C23_Witness ==
  \E i, j \in Ids :
    /\ settled[i] = "resolved" /\ dispatched[i] = maxRetries + 1
    /\ lastDelay[i] = 120000
    /\ settled[j] = "rejected" /\ dispatched[j] = 1

\* the request has gone through trackApiRequest()
Recorded(req) == req.checked /\ ~req.exceeded

\* C24: checkQuotaAvailable is consulted on every request that reaches
\* generateQuiz or validateAnswer, answers graded without an AI call
\* included, and a request that was recorded goes on to addToQueue.
C24_CheckOnEveryRequest ==
  \A r \in 1..Len(requests) :
    /\ requests[r].checked
    /\ (Recorded(requests[r]) /\ requests[r].pc = "done") => requests[r].item # 0

\* C25: the check and the record of a request are made in one step, the one
\* in which the request arrives at its handler: no request waits between its
\* check and its record, every record is made by an arriving request on the
\* very counters its check has read (window current: requestsThisMinute below
\* minuteQuota before, one more after), so however requests overlap no two of
\* them are admitted for the last free slot of a window.
C25_AtomicAdmission ==
  /\ [](\A r \in 1..Len(requests) : requests[r].pc # "start")
  /\ [][nRecords' # nRecords =>
          LET before == Loaded
              after == inMemoryQuotaData'
          IN /\ nRecords' = nRecords + 1
             /\ Arrival /\ Recorded(Last(requests'))
             /\ lastResult'.op = "record" /\ lastResult'.at = now
             /\ now - before.lastMinuteTimestamp < 60000 =>
                  /\ before.requestsThisMinute < after.minuteQuota
                  /\ after.requestsThisMinute = before.requestsThisMinute + 1
             /\ after.requestsThisMinute <= after.minuteQuota]_vars
  /\ [][(Arrival /\ Last(requests').checked /\ Last(requests').exceeded) =>
          /\ nRecords' = nRecords
          /\ lastResult'.op = "check" /\ lastResult'.at = now]_vars
  /\ [](inMemoryQuotaData # NoData =>
          inMemoryQuotaData.requestsThisMinute <= inMemoryQuotaData.minuteQuota)

\* one free slot, two overlapping requests: the first took the slot and is
\* still saving its session when the second arrives and is denied
C25_Witness ==
  /\ Len(requests) = 2
  /\ requests[1].pc = "saving" /\ Recorded(requests[1])
  /\ requests[2].checked /\ requests[2].exceeded /\ requests[2].pc = "done"
  /\ nRecords = 1
  /\ inMemoryQuotaData.requestsThisMinute = inMemoryQuotaData.minuteQuota
  /\ quotaFile.data = inMemoryQuotaData

\* C26: when every record follows a check that reported room, and the
\* process starts from a file with requestsThisMinute <= minuteQuota, then
\* requestsThisMinute <= minuteQuota in every reachable state, at most
\* minuteQuota calls are recorded in a window, and a record is flagged only
\* because requestsToday has reached dailyQuota, never by its minute clause.
C26_MinuteQuotaKept ==
  /\ inMemoryQuotaData # NoData =>
       /\ inMemoryQuotaData.requestsThisMinute <= inMemoryQuotaData.minuteQuota
       /\ windowCalls <= inMemoryQuotaData.minuteQuota
  /\ (quotaFile.exists /\ quotaFile.valid) =>
       quotaFile.data.requestsThisMinute <= Max(quotaFile.data.minuteQuota, minuteQuotaDefault)
  /\ (AfterRecord /\ lastResult.isQuotaExceeded) =>
       /\ inMemoryQuotaData.requestsToday >= inMemoryQuotaData.dailyQuota
       /\ lastResult.requestsThisMinute <= inMemoryQuotaData.minuteQuota

\* fifteen requests were admitted in one window, none of them flagged, and
\* the sixteenth is denied by the check
C26_Witness ==
  /\ lastResult.op = "check" /\ lastResult.isQuotaExceeded /\ lastResult.at = now
  /\ nRecords = minuteQuotaDefault /\ windowCalls = minuteQuotaDefault
  /\ inMemoryQuotaData.requestsThisMinute = inMemoryQuotaData.minuteQuota
  /\ inMemoryQuotaData.quotaExceededCount = 0

RECURSIVE Invocations(_)
Invocations(n) == IF n = 0 THEN 0 ELSE dispatched[n] + Invocations(n - 1)

\* C28: the quota counts admitted requests, not backend calls: every record
\* is made by an arriving request, one per admitted request, and before its
\* addToQueue; timers and completed runs of the governor never record; so
\* the number of run invocations is at most (maxRetries + 1) = 4 times the
\* number of records, and every invoked item belongs to a recorded request.
C28_RecordsCountRequests ==
  /\ [](Invocations(MaxItems) <= 4 * nRecords)
  /\ [](\A i \in Ids : dispatched[i] <= maxRetries + 1)
  /\ [](submitted <= nRecords)
  /\ [](nRecords = Cardinality({r \in 1..Len(requests) : Recorded(requests[r])}))
  /\ [](\A i \in Ids : settled[i] # "none" =>
          \E r \in 1..Len(requests) : requests[r].item = i /\ Recorded(requests[r]))
  /\ [](\A r, q \in 1..Len(requests) :
          (requests[r].item # 0 /\ requests[r].item = requests[q].item) => r = q)
  /\ [][~Arrival => nRecords' = nRecords]_vars
  /\ [][Arrival => nRecords' = nRecords + (IF Recorded(Last(requests')) THEN 1 ELSE 0)]_vars
  /\ [][Invoked => dispatched # dispatched' /\ Invocations(MaxItems)' = Invocations(MaxItems) + 1]_vars

\* one recorded request, four invocations of its run: three rate-limited
\* retries were made without a record and the item ended exhausted
C28_Witness ==
  /\ nRecords = 1 /\ Len(requests) = 1
  /\ Invocations(MaxItems) = 4 * nRecords
  /\ settled[requests[1].item] = "exhausted"
  /\ inMemoryQuotaData.requestsToday = 1

\* addToQueue is called in this step, by a handler or by a backoff timer
Enqueues == submitted' = submitted + 1 \/ \E i \in Ids : RetryTimerFires(i)

\* C30: between event-loop steps processing is true exactly while a
\* processQueue activation is alive (pacing sleep, run in flight or pending
\* 100 ms drain timer), and it is true whenever the queue is non-empty; so
\* an item enqueued while processing is true only joins the queue, where the
\* alive activation's drain timer finds it, an item enqueued while it is
\* false is taken by a drain started in that same step, and the queue is
\* eventually empty for good.
C30_NoLostWakeup ==
  /\ [](processing <=> Activations = 1)
  /\ []((Len(queue) > 0 \/ Len(running) > 0 \/ CountKind("drain") > 0) => processing)
  /\ [](~processing => Len(queue) = 0 /\ CountKind("drain") = 0)
  /\ [][Enqueues =>
          IF processing
          THEN /\ Len(queue') = Len(queue) + 1
               /\ SubSeq(queue', 1, Len(queue)) = queue
               /\ UNCHANGED <<processing, running, lastRequestTime, dispatched>>
               /\ CountKind("pace")' = CountKind("pace")
               /\ CountKind("drain")' = CountKind("drain")
          ELSE /\ processing'
               /\ queue' = <<>>
               /\ StartsPace \/ StartsRun]_vars
  /\ [][(CountKind("drain")' < CountKind("drain") /\ Len(queue) > 0) =>
          /\ queue' = Tail(queue)
          /\ StartsPace \/ StartsRun
          /\ TakenItem = Head(queue)]_vars
  /\ <>[](Len(queue) = 0 /\ ~processing)

\* an item enqueued during the run of another waits in the queue while the
\* only thing alive is the 100 ms drain timer that will take it
C30_Witness ==
  /\ processing /\ Len(running) = 0 /\ CountKind("pace") = 0
  /\ CountKind("drain") = 1
  /\ \E i \in Ids : queue = <<[id |-> i, retryCount |-> 0]>> /\ dispatched[i] = 0

\* connect() is entered in this step, by a caller or by the retry timer
ConnectEntered ==
  \/ connectLog'.calls = connectLog.calls + 1
  \/ CountKind("connect")' < CountKind("connect")

\* mongoose.connect settles in this step
SettleStep == isConnecting /\ ~isConnecting'

\* C29: the promise of connect() is never rejected; a failed attempt made
\* with connectionAttempts < 5 sets exactly one timer, 3000 ms ahead, and
\* keeps the count; the fifth failure in a row sets none and resets the
\* count to 0; a success resets it to 0; a connect() entered while
\* isConnecting is set starts no mongoose.connect and changes nothing; so
\* the count stays within 0..5 and at most 5 attempts are made for each
\* call of connect() by the application.
C29_BoundedReconnect ==
  /\ [](connectLog.rejected = 0)
  /\ [](connectionAttempts \in 0..maxConnectionAttempts)
  /\ [](connectionAttempts = connectLog.failedInRow + (IF isConnecting THEN 1 ELSE 0))
  /\ [](connectLog.started <= maxConnectionAttempts * connectLog.calls)
  /\ [](CountKind("connect") + (IF isConnecting THEN 1 ELSE 0) <= connectLog.calls)
  /\ [][(SettleStep /\ connectLog'.lastOutcome = "failed") =>
          IF connectionAttempts < 5
          THEN /\ timers' = Append(timers, Timer("connect", now + 3000, 0, 0))
               /\ connectionAttempts' = connectionAttempts
          ELSE /\ timers' = timers
               /\ connectionAttempts = 5 /\ connectLog.failedInRow = 4
               /\ connectionAttempts' = 0]_vars
  /\ [][(SettleStep /\ connectLog'.lastOutcome = "connected") =>
          timers' = timers /\ connectionAttempts' = 0]_vars
  /\ [][SettleStep => connectLog'.resolved = connectLog.resolved + 1]_vars
  /\ [][(ConnectEntered /\ isConnecting) =>
          /\ connectLog'.started = connectLog.started
          /\ connectLog'.resolved = connectLog.resolved + 1
          /\ UNCHANGED <<isConnecting, connectionAttempts>>
          /\ CountKind("connect")' <= CountKind("connect")]_vars
  /\ [][(ConnectEntered /\ ~isConnecting) =>
          /\ isConnecting'
          /\ connectLog'.started = connectLog.started + 1
          /\ connectionAttempts' = connectionAttempts + 1]_vars

\* the connector gave up: five attempts 3000 ms apart all failed, a second
\* call made while one of them was in flight started none, and no timer is left
C29_Witness ==
  /\ connectLog.calls = 2 /\ connectLog.started = maxConnectionAttempts
  /\ connectLog.resolved = maxConnectionAttempts + 1
  /\ connectLog.lastOutcome = "failed"
  /\ ~isConnecting /\ connectionAttempts = 0 /\ timers = <<>>
  /\ now = StartTime + 4 * connectRetryDelay

====
